---------------------------- MODULE Spec2Model ----------------------------
(***************************************************************************)
(* A model of the OWENSQUOTE bot: the orchestrator (RickOwensQuoteBot),    *)
(* the interview store (InterviewReader), the quote provider               *)
(* (QuoteExtractor, in its two implementations) and the email dispatcher   *)
(* (EmailSender).                                                          *)
(*                                                                         *)
(* JavaScript runs one callback at a time: an action of this model is the  *)
(* code that runs between two suspension points (an await of real I/O).   *)
(* An await of an async function that performs no I/O resumes in the same  *)
(* turn of the event loop, before any timer or signal callback, so it is   *)
(* not a suspension point of the model.                                    *)
(*                                                                         *)
(* A JavaScript string is a sequence of characters; a character is a       *)
(* one-symbol TLA+ string.  The symbol "ERROR_NO_QUOTE" stands for that    *)
(* whole word occurring contiguously in a string.                          *)
(***************************************************************************)
EXTENDS Integers, Sequences, FiniteSets, TLC

VARIABLES
    \* ---- RickOwensQuoteBot and the process around it
    isRunning,      \* this.isRunning, the re-entrancy guard
    pstate,         \* where start() is: "boot", "single", "scheduled", "exited"
    exitCode,       \* the status given to process.exit, NoExit before
    runOnce,        \* scheduleConfig.runOnce
    jobActive,      \* the CronJob is registered and running
    calls,          \* the processQuote() invocations, by call number
    nCalls,         \* how many invocations were issued
    \* ---- configuration
    provider,       \* the effective AI provider of the bot's QuoteExtractor
    apiKey,         \* the shape of that provider's API key
    recipients,     \* config.getEmailRecipients()
    transformersPipeline,  \* the QuoteExtractor's pipeline was constructed
    \* ---- InterviewReader
    interviews,     \* this.interviews: [isNull, list]
    lastLoadTime,   \* this.lastLoadTime, NullTime for null
    now,            \* Date.now()
    doc,            \* the interviews document on disk
    \* ---- EmailSender
    mailConfig,     \* the config the EmailSender was constructed from
    isConfigured,   \* this.isConfigured
    transporter,    \* this.transporter: "null" or "created"
    mailOps,        \* the dispatcher operations of the dispatcher harness
    nMailOps,       \* how many of them were issued
    \* ---- QuoteExtractor harness
    xq,             \* one extraction: its inputs and what was computed
    \* ---- InterviewReader harness
    sr,             \* the store operations issued, and the last completed load
    \* ---- Config harness
    cf,             \* one environment, and what the configuration makes of it
    \* ---- record-derivation harness
    rd,             \* one raw text, content or url, and the field derived from it
    \* ---- local-inference harness
    lx              \* the extractWithTransformers() calls on one QuoteExtractor

vars == <<isRunning, pstate, exitCode, runOnce, jobActive, calls, nCalls,
          provider, apiKey, recipients, transformersPipeline,
          interviews, lastLoadTime, now, doc,
          mailConfig, isConfigured, transporter, mailOps, nMailOps, xq, sr, cf, rd, lx>>

botVars   == <<isRunning, pstate, exitCode, runOnce, jobActive, calls, nCalls>>
cfgVars   == <<provider, apiKey, recipients>>
storeVars == <<interviews, lastLoadTime, now, doc>>
mailVars  == <<mailConfig, isConfigured, transporter, mailOps, nMailOps>>

--------------------------------------------------------------------------
(* Bounds of the model *)

\* the longest backend response of the extractor harness, in characters
MaxRawLen == 3
\* processQuote() invocations issued in one behaviour
MaxCalls == 2
\* entries of the interviews document
MaxDoc == 1
\* dispatcher operations issued in one behaviour of the dispatcher harness
MaxMailOps == 3
\* the clock stops advancing here (in units of StaleAfter + 1 ms)
MaxTicks == 1
\* store operations issued in one behaviour of the store harness
MaxStoreOps == 2
\* entries of the interviews document of the store harness
MaxStoreDoc == 2
\* how often the document changes on disk in the store harness
MaxDocChanges == 1

--------------------------------------------------------------------------
(* Strings *)

\* the characters /["'"'"`]/ matches
QuoteChars == {"\"", "'"}
\* the characters \s matches
SpaceChars == {" ", "\n"}
Chars == QuoteChars \cup SpaceChars \cup {"-", "a", "ERROR_NO_QUOTE"}

\* the sentinel the prompt asks the backend for
Sentinel == <<"ERROR_NO_QUOTE">>
\* null, and undefined, where a string may stand
NullStr == <<"<null>">>
Undefined == <<"<undefined>">>

RECURSIVE StringsUpTo(_)
StringsUpTo(n) ==
    IF n = 0 THEN {<<>>}
    ELSE LET shorter == StringsUpTo(n - 1)
         IN  shorter \cup {Append(s, c) : s \in {t \in shorter : Len(t) = n - 1}, c \in Chars}

\* String.prototype.trim
RECURSIVE TrimStart(_)
TrimStart(s) ==
    IF s # <<>> /\ Head(s) \in SpaceChars THEN TrimStart(Tail(s)) ELSE s

RECURSIVE TrimEnd(_)
TrimEnd(s) ==
    IF s # <<>> /\ s[Len(s)] \in SpaceChars
    THEN TrimEnd(SubSeq(s, 1, Len(s) - 1))
    ELSE s

Trim(s) == TrimEnd(TrimStart(s))

\* .replace(/^["'"'"`]/, '')
StripLeadingQuote(s) ==
    IF s # <<>> /\ Head(s) \in QuoteChars THEN Tail(s) ELSE s

\* .replace(/["'"'"`]$/, '')
StripTrailingQuote(s) ==
    IF s # <<>> /\ s[Len(s)] \in QuoteChars THEN SubSeq(s, 1, Len(s) - 1) ELSE s

\* .replace(/^- /, '')
StripLeadingDash(s) ==
    IF Len(s) >= 2 /\ s[1] = "-" /\ s[2] = " " THEN SubSeq(s, 3, Len(s)) ELSE s

\* .replace(/\s+/g, ' ')
RECURSIVE NormalizeWhitespace(_)
NormalizeWhitespace(s) ==
    IF s = <<>> THEN <<>>
    ELSE IF Head(s) \in SpaceChars
         THEN <<" ">> \o NormalizeWhitespace(TrimStart(s))
         ELSE <<Head(s)>> \o NormalizeWhitespace(Tail(s))

\* !x for x a string, null or undefined
Falsy(s) == s \in {NullStr, Undefined, <<>>}

cleanQuote(rawQuote) ==
    IF Falsy(rawQuote) THEN NullStr
    ELSE Trim(NormalizeWhitespace(StripLeadingDash(
            StripTrailingQuote(StripLeadingQuote(Trim(rawQuote))))))


--------------------------------------------------------------------------
(* QuoteExtractor *)

\* the kinds initializeClient() accepts: the five-provider implementation,
\* and the three-provider one of src/quote-extractor/quote-extractor.js
ProviderKinds == {"openai", "anthropic", "gemini", "ollama", "transformers"}
LegacyProviderKinds == {"openai", "anthropic", "gemini"}

\* new QuoteExtractor(config) of the five-provider implementation: what the
\* constructor throws, "none" when it returns.  kind is config.provider
\* ("none" when the config or its provider is missing), hasKey whether
\* config.apiKey is truthy.
QuoteExtractor(kind, hasKey) ==
    IF kind = "none" THEN "ConfigRequired"
    ELSE IF ~hasKey /\ kind \notin {"ollama", "transformers"} THEN "ApiKeyRequired"
    ELSE IF kind \notin ProviderKinds THEN "UnsupportedProvider"
    ELSE "none"

\* the same constructor in src/quote-extractor/quote-extractor.js
QuoteExtractorLegacy(kind, hasKey) ==
    IF kind = "none" \/ ~hasKey THEN "ConfigRequired"
    ELSE IF kind \notin LegacyProviderKinds THEN "UnsupportedProvider"
    ELSE "none"

\* a || b, for a a number and for a a string
OrElseNumber(a, b) == IF a = 0 THEN b ELSE a
OrElseString(a, b) == IF a = "" THEN b ELSE a

\* The parameters extractWith<Kind>() passes to its backend, for
\* this.config = c.  Temperatures are in tenths (7 is 0.7).
BackendRequest(kind, c) ==
    CASE kind = "ollama" ->
            [model |-> OrElseString(c.model, "qwen2.5:1.5b"),
             maxTokens |-> OrElseNumber(c.maxTokens, 300),
             temperature |-> OrElseNumber(c.temperature, 7)]
      [] kind = "transformers" ->
            [model |-> OrElseString(c.model, "Xenova/LaMini-Flan-T5-248M"),
             maxTokens |-> OrElseNumber(c.maxTokens, 100),
             temperature |-> OrElseNumber(c.temperature, 7)]
      [] OTHER ->
            [model |-> c.model, maxTokens |-> c.maxTokens, temperature |-> c.temperature]

\* ---- extractWithTransformers() on one QuoteExtractor

MaxPipelineCalls == 3

\* the local-inference harness is not in use; attempts counts the
\* pipeline() calls made and constructions those that gave a pipeline
LxOff == [on |-> FALSE, calls |-> <<>>, n |-> 0, attempts |-> 0, constructions |-> 0]

\* the backend call rejected (auth, quota, timeout, malformed response)
Failure == <<"<failure>">>
\* a field not computed yet
Unset == <<"<unset>">>

\* what extractWith<Kind>() returns for the backend's reply: the optional
\* chains give undefined for a reply without text, and the transformers
\* backend turns that into ''
ResponseText(kind, reply) ==
    IF kind = "transformers" /\ Falsy(reply) THEN <<>> ELSE reply

Quotes(text, source) == [tag |-> "quotes", text |-> text, source |-> source, err |-> "none"]
Absent == [tag |-> "absent", text |-> NullStr, source |-> "none", err |-> "none"]
Threw(err) == [tag |-> "threw", text |-> NullStr, source |-> "none", err |-> err]

\* extractQuotes() without the test for the sentinel
extractQuotesKeepingSentinel(kind, reply) ==
    IF kind \notin ProviderKinds THEN Threw("UnsupportedProvider")
    ELSE IF reply = Failure THEN Threw("ProviderError")
    ELSE LET cleanedQuote == cleanQuote(ResponseText(kind, reply))
         IN  IF Falsy(cleanedQuote) THEN Absent ELSE Quotes(cleanedQuote, kind)

\* extractQuotes() once the backend has answered `reply`
extractQuotes(kind, reply) ==
    IF kind \notin ProviderKinds THEN Threw("UnsupportedProvider")
    ELSE IF reply = Failure THEN Threw("ProviderError")
    ELSE LET cleanedQuote == cleanQuote(ResponseText(kind, reply))
         IN  IF Falsy(cleanedQuote) \/ cleanedQuote = Sentinel
             THEN Absent
             ELSE Quotes(cleanedQuote, kind)

\* the same operation in src/quote-extractor/quote-extractor.js
extractQuotesLegacy(kind, reply) ==
    IF kind \notin LegacyProviderKinds THEN Threw("UnsupportedProvider")
    ELSE IF reply = Failure THEN Threw("ProviderError")
    ELSE LET cleanedQuote == cleanQuote(reply)
         IN  IF Falsy(cleanedQuote)
             THEN Threw("NoValidQuote")
             ELSE Quotes(cleanedQuote, kind)

\* what extractQuote() gives: a text or null, or an error
Returned(text) == [tag |-> "returned", text |-> text, source |-> "none", err |-> "none"]

\* extractQuote(interviewData): quotes[0]?.text || null, with quotes what
\* extractQuotes() resolved to; quotes[0] of null is a TypeError
extractQuote(quotes) ==
    CASE quotes.tag = "threw"  -> quotes
      [] quotes.tag = "absent" -> Threw("TypeError")
      [] OTHER -> IF Falsy(quotes.text) THEN Returned(NullStr) ELSE Returned(quotes.text)

Implementations == {"current", "legacy"}

KindsOf(impl) == IF impl = "current" THEN ProviderKinds ELSE LegacyProviderKinds

QuoteExtractorOf(impl, kind, hasKey) ==
    IF impl = "current" THEN QuoteExtractor(kind, hasKey)
    ELSE QuoteExtractorLegacy(kind, hasKey)

extractQuotesOf(impl, kind, reply) ==
    IF impl = "current" THEN extractQuotes(kind, reply)
    ELSE extractQuotesLegacy(kind, reply)

\* the replies the extractor harness draws from
Replies == StringsUpTo(MaxRawLen) \cup {Undefined, Failure}

UnsetOutcome == [tag |-> "unset", text |-> NullStr, source |-> "none", err |-> "none"]

\* the harness is not in use
XqOff == [impl |-> "current", kind |-> "openai", reply |-> Unset,
          cleaned |-> Unset, cleanedTwice |-> Unset, outcome |-> UnsetOutcome,
          single |-> UnsetOutcome]

XqInit ==
    \E impl \in Implementations :
      \E kind \in KindsOf(impl), reply \in Replies :
        xq = [XqOff EXCEPT !.impl = impl, !.kind = kind, !.reply = reply]

xqFrame == <<botVars, cfgVars, transformersPipeline, storeVars, mailVars, sr, cf, rd, lx>>

\* cleanQuote(response)
XClean ==
    /\ xq.reply # Unset /\ xq.reply # Failure
    /\ xq.cleaned = Unset
    /\ xq' = [xq EXCEPT !.cleaned = cleanQuote(xq.reply)]
    /\ UNCHANGED xqFrame

\* cleanQuote() of an already cleaned quote
XCleanAgain ==
    /\ xq.cleaned \notin {Unset, NullStr}
    /\ xq.cleanedTwice = Unset
    /\ xq' = [xq EXCEPT !.cleanedTwice = cleanQuote(xq.cleaned)]
    /\ UNCHANGED xqFrame

\* extractQuote(interviewData), the backend answering xq.reply
XExtractQuote ==
    /\ xq.reply # Unset
    /\ xq.single.tag = "unset"
    /\ xq' = [xq EXCEPT !.single = extractQuote(extractQuotesOf(xq.impl, xq.kind, xq.reply))]
    /\ UNCHANGED xqFrame

\* extractQuotes(content, title), the backend answering xq.reply
XExtract ==
    /\ xq.reply # Unset
    /\ xq.outcome.tag = "unset"
    /\ xq' = [xq EXCEPT !.outcome = extractQuotesOf(xq.impl, xq.kind, xq.reply)]
    /\ UNCHANGED xqFrame

--------------------------------------------------------------------------
(* InterviewReader *)

\* this.lastLoadTime = null
NullTime == -1
\* the staleness window of the read operations, in ms
StaleAfter == 300000
\* records whose cleaned content is not longer than this are dropped
MinContentLength == 100

\* an entry of the document: whether it has a (truthy) url and text, whether
\* the text is a string (a number, an object or true otherwise), and the
\* length of cleanContent(text)
Entries ==
    [hasUrl : {TRUE}, hasText : {TRUE}, isString : {TRUE},
     len : {MinContentLength, MinContentLength + 1}]
        \cup {[hasUrl |-> FALSE, hasText |-> TRUE, isString |-> TRUE, len |-> MinContentLength + 1],
              [hasUrl |-> TRUE, hasText |-> FALSE, isString |-> TRUE, len |-> 0],
              [hasUrl |-> TRUE, hasText |-> TRUE, isString |-> FALSE, len |-> 0]}

RECURSIVE SeqsUpTo(_, _)
SeqsUpTo(S, n) ==
    IF n = 0 THEN {<<>>}
    ELSE LET shorter == SeqsUpTo(S, n - 1)
         IN  shorter \cup {Append(s, e) : s \in {t \in shorter : Len(t) = n - 1}, e \in S}

\* the document: unreadable, not JSON, JSON that is no array, or an array
DocumentsUpTo(n) ==
    [kind : {"unreadable", "invalid", "notarray"}, entries : {<<>>}]
        \cup [kind : {"array"}, entries : SeqsUpTo(Entries, n)]

Documents == DocumentsUpTo(MaxDoc)

NoInterviews == [isNull |-> TRUE, list |-> <<>>]

\* data.filter(url && text).map(record with id interview-(index + 1))
\*     .filter(content.length > 100)
ProcessedInterviews(entries) ==
    LET kept == SelectSeq(entries, LAMBDA e : e.hasUrl /\ e.hasText)
        mapped == [k \in 1..Len(kept) |-> [id |-> k, len |-> kept[k].len]]
    IN  SelectSeq(mapped, LAMBDA r : r.len > MinContentLength)

\* extractTitle(text, url) calls text.split, and cleanContent(text) calls
\* text.replace: both throw a TypeError for a text that is not a string
MapThrows(entries) ==
    \E k \in 1..Len(entries) :
        entries[k].hasUrl /\ entries[k].hasText /\ ~entries[k].isString

\* a loadInterviews() that assigns the collection and leaves the load time
loadInterviewsKeepingTime(d, iv, llt, t) ==
    IF d.kind # "array" \/ MapThrows(d.entries)
    THEN [err |-> "Error", interviews |-> iv, lastLoadTime |-> llt]
    ELSE [err |-> "none",
          interviews |-> [isNull |-> FALSE, list |-> ProcessedInterviews(d.entries)],
          lastLoadTime |-> llt]

\* loadInterviews() once readFile has settled: what it throws, and the
\* collection and the load time it leaves
\* the errors of loadInterviews()
LoadErrors == {"IOError", "SyntaxError", "NotArray", "TypeError"}

\* loadInterviews() with a catch that drops the cache
loadInterviewsClearingOnError(d, iv, llt, t) ==
    IF d.kind = "array" /\ ~MapThrows(d.entries)
    THEN [err |-> "none",
          interviews |-> [isNull |-> FALSE, list |-> ProcessedInterviews(d.entries)],
          lastLoadTime |-> t]
    ELSE [err |-> "IOError", interviews |-> NoInterviews, lastLoadTime |-> NullTime]

loadInterviews(d, iv, llt, t) ==
    CASE d.kind = "unreadable" -> [err |-> "IOError", interviews |-> iv, lastLoadTime |-> llt]
      [] d.kind = "invalid"    -> [err |-> "SyntaxError", interviews |-> iv, lastLoadTime |-> llt]
      [] d.kind = "notarray"   -> [err |-> "NotArray", interviews |-> iv, lastLoadTime |-> llt]
      [] d.kind = "array" /\ MapThrows(d.entries) ->
                   [err |-> "TypeError", interviews |-> iv, lastLoadTime |-> llt]
      [] OTHER -> [err |-> "none",
                   interviews |-> [isNull |-> FALSE, list |-> ProcessedInterviews(d.entries)],
                   lastLoadTime |-> t]

\* Date.now() - this.lastLoadTime, null converting to 0
Age(llt, t) == t - (IF llt = NullTime THEN 0 ELSE llt)

\* a staleness test that looks only for an absent collection
NeedsLoadIgnoringAge(iv, llt, t) == iv.isNull

\* the staleness test of getRandomInterview() and getAllInterviews()
NeedsLoad(iv, llt, t) == iv.isNull \/ Age(llt, t) > StaleAfter

\* getRandomInterview() without the test for an empty collection: the
\* record selected is undefined and reading its title throws
RandomInterviewErrorUnchecked(iv) ==
    IF iv.isNull \/ Len(iv.list) = 0 THEN "TypeError" ELSE "none"

\* getRandomInterview() after its load, if any: the error it throws
RandomInterviewError(iv) ==
    IF iv.isNull \/ Len(iv.list) = 0 THEN "NoInterviews" ELSE "none"

\* no record: what find() gives when nothing matches
NoRecord == [id |-> 0, len |-> 0]

\* a find() that gives the first record whatever its id
FindFirst(list, id) == IF list = <<>> THEN NoRecord ELSE Head(list)

\* interviews.find(i => i.id === id)
Find(list, id) ==
    LET hits == SelectSeq(list, LAMBDA r : r.id = id)
    IN  IF hits = <<>> THEN NoRecord ELSE Head(hits)

\* the indices Math.floor(Math.random() * length) can give
Picks(iv) == IF Len(iv.list) = 0 THEN {0} ELSE 1..Len(iv.list)

ReadOps == {"getRandom", "getAll", "getById"}

\* no document was read
NoDoc == [kind |-> "none", entries |-> <<>>]

\* A store operation: op is one of ReadOps, "load" or "reload"; pc is
\* "idle", "readFile" (awaiting fs.readFile) or "done"; id is getById's
\* argument; at, cache and llt are Date.now(), this.interviews and
\* this.lastLoadTime when the operation was called; loads counts its
\* loadInterviews() calls and read is the document its readFile gave;
\* served is the collection it answered from and rec the record it returned.
NewStoreOp == [op |-> "none", pc |-> "idle", id |-> 0, at |-> 0,
               cache |-> NoInterviews, llt |-> NullTime, loads |-> 0, read |-> NoDoc,
               result |-> "none", err |-> "none",
               served |-> NoInterviews, rec |-> NoRecord, seen |-> 0]

StoreThrow(o, err) == [o EXCEPT !.pc = "done", !.result = "threw", !.err = err]

\* getRandomInterview() from its empty check on
getRandomInterview(o, iv, k) ==
    IF RandomInterviewError(iv) # "none"
    THEN StoreThrow([o EXCEPT !.served = iv], RandomInterviewError(iv))
    ELSE [o EXCEPT !.pc = "done", !.result = "returned", !.served = iv, !.rec = iv.list[k]]

\* getAllInterviews() after its load, if any: this.interviews || []
getAllInterviews(o, iv) ==
    [o EXCEPT !.pc = "done", !.result = "returned", !.served = iv]

\* getInterviewById(id) once getAllInterviews() has returned
getInterviewById(o, iv) ==
    IF Find(iv.list, o.id) = NoRecord
    THEN StoreThrow([o EXCEPT !.served = iv], "NotFound")
    ELSE [o EXCEPT !.pc = "done", !.result = "returned", !.served = iv,
                   !.rec = Find(iv.list, o.id)]

\* a read operation answering from this.interviews = iv; k is the index
\* Math.random() selects
Serve(o, iv, k) ==
    CASE o.op = "getRandom" -> getRandomInterview(o, iv, k)
      [] o.op = "getAll"    -> getAllInterviews(o, iv)
      [] OTHER              -> getInterviewById(o, iv)

\* a store operation resumed when its readFile has settled and
\* loadInterviews() has run to its end with outcome l
AfterLoad(o, l, k) ==
    IF l.err # "none" THEN StoreThrow(o, l.err)
    ELSE IF o.op \in ReadOps THEN Serve(o, l.interviews, k)
    ELSE [o EXCEPT !.pc = "done", !.result = "returned", !.served = l.interviews]

\* the load that completed last (none yet): its time and its collection
NoLoad == [any |-> FALSE, t |-> NullTime, list |-> <<>>]

RECURSIVE TotalLength(_)
TotalLength(list) ==
    IF list = <<>> THEN 0 ELSE Head(list).len + TotalLength(Tail(list))

\* Math.round(a / b): NaN for 0 / 0, else the nearest integer
Number(v) == [isNaN |-> FALSE, value |-> v]
NaN == [isNaN |-> TRUE, value |-> 0]
RoundedQuotient(a, b) ==
    IF b = 0 THEN NaN ELSE Number((2 * a + b) \div (2 * b))

\* getStats(); the sources field, which the records of the model do not
\* carry, is left out
getStats(iv, llt) ==
    IF iv.isNull
    THEN [total |-> 0, averageLength |-> Number(0), lastLoaded |-> NullTime]
    ELSE [total |-> Len(iv.list),
          averageLength |-> RoundedQuotient(TotalLength(iv.list), Len(iv.list)),
          lastLoaded |-> llt]

SrOff == [on |-> FALSE, ops |-> <<>>, n |-> 0, changes |-> 0, last |-> NoLoad]

\* ---- the fields loadInterviews() derives for each record

MaxLines   == 6   \* lines of a raw text
MaxContent == 4   \* characters of a raw content
MaxHost    == 7   \* characters of a hostname

\* A line of the raw text after trim(): its length, which of the tested
\* substrings its lower-cased form contains, and which it contains as written.
PlainLine(n) == [len |-> n, lower |-> {}, exact |-> {}]
TitleLines ==
    {PlainLine(0), PlainLine(9), PlainLine(10), PlainLine(100), PlainLine(101),
     [len |-> 20, lower |-> {"home"}, exact |-> {}],
     [len |-> 20, lower |-> {"about"}, exact |-> {"about"}],
     [len |-> 20, lower |-> {".com"}, exact |-> {".com"}]}
Texts(n) == SeqsUpTo(TitleLines, n)

\* A path segment is a sequence of hyphen-separated words; <<>> is ''.
PathWords == {"rick", "owens", "interviews"}
ToUpperFirst(w) ==
    CASE w = "rick" -> "Rick" [] w = "owens" -> "Owens"
      [] w = "interviews" -> "Interviews" [] w = "interview" -> "Interview"
      [] OTHER -> w
Paths == {<<>>, <<(<<"interviews">>), (<<"rick", "owens">>)>>,
          <<(<<"rick", "owens">>), (<<>>)>>}

HostChars == {"w", "x", "."}
Hostnames ==
    {h \in SeqsUpTo(HostChars, MaxHost) :
        /\ h # <<>> /\ h[1] # "." /\ h[Len(h)] # "."
        /\ \A i \in 1..(Len(h) - 1) : ~(h[i] = "." /\ h[i + 1] = ".")}

\* what new URL(url) makes of a url: it throws, or gives hostname and pathname
NoUrl == [parsable |-> FALSE, host |-> <<>>, path |-> <<>>]
TitleUrls == {NoUrl} \cup {[parsable |-> TRUE, host |-> <<"x">>, path |-> p] : p \in Paths}
SourceUrls == {NoUrl} \cup {[parsable |-> TRUE, host |-> h, path |-> <<>>] : h \in Hostnames}

NonEmptyLine(l) == l.len > 0
NonEmptySegment(p) == p # <<>>
TitleOfLine(l) == [fromLine |-> TRUE, line |-> l, words |-> <<>>]
TitleOfWords(w) == [fromLine |-> FALSE, line |-> PlainLine(0), words |-> w]

\* the first n elements of s
Slice(s, n) == SubSeq(s, 1, IF Len(s) < n THEN Len(s) ELSE n)

RECURSIVE TitleScan(_)
TitleScan(lines) ==
    IF lines = <<>> THEN <<>>
    ELSE LET line == Head(lines)
         IN  IF line.len < 10 \/ "home" \in line.lower \/ "about" \in line.lower
             THEN TitleScan(Tail(lines))
             ELSE IF line.len >= 10 /\ line.len <= 100 /\ ".com" \notin line.exact
                  THEN <<line>>
                  ELSE TitleScan(Tail(lines))

TitleFromUrl(url) ==
    IF ~url.parsable THEN TitleOfWords(<<"Interview">>)
    ELSE LET segs == SelectSeq(url.path, NonEmptySegment)
             pathname == IF segs = <<>> THEN <<"interview">> ELSE segs[Len(segs)]
         IN  TitleOfWords([i \in 1..Len(pathname) |-> ToUpperFirst(pathname[i])])

extractTitleEveryLine(text, url) ==
    LET found == TitleScan(SelectSeq(text, NonEmptyLine))
    IN  IF found # <<>> THEN TitleOfLine(found[1]) ELSE TitleFromUrl(url)

extractTitle(text, url) ==
    LET lines == SelectSeq(text, NonEmptyLine)
        found == TitleScan(Slice(lines, 5))
    IN  IF found # <<>> THEN TitleOfLine(found[1]) ELSE TitleFromUrl(url)

\* String.prototype.replace(pattern, '') with a string pattern: the first
\* occurrence only
RECURSIVE RemoveFirst(_, _)
RemoveFirst(s, pattern) ==
    IF Len(s) < Len(pattern) THEN s
    ELSE IF SubSeq(s, 1, Len(pattern)) = pattern
         THEN SubSeq(s, Len(pattern) + 1, Len(s))
         ELSE <<Head(s)>> \o RemoveFirst(Tail(s), pattern)

UnknownSource == <<"Unknown Source">>
extractSource(url) ==
    IF ~url.parsable THEN UnknownSource
    ELSE RemoveFirst(url.host, <<"w", "w", "w", ".">>)

\* "<e9>" stands for a character outside \x20-\x7E
ContentChars == {"a", " ", "\t", "\n", "<e9>"}
Whitespace == {" ", "\t", "\n"}
Contents == SeqsUpTo(ContentChars, MaxContent)

\* .replace(/\s+/g, ' ')
RECURSIVE CollapseWhitespace(_)
CollapseWhitespace(s) ==
    IF s = <<>> THEN <<>>
    ELSE IF Head(s) \in Whitespace
         THEN IF Len(s) > 1 /\ s[2] \in Whitespace
              THEN CollapseWhitespace(Tail(s))
              ELSE <<" ">> \o CollapseWhitespace(Tail(s))
         ELSE <<Head(s)>> \o CollapseWhitespace(Tail(s))

\* the end of the match of /\n\s*\n/ that starts at the head of s, 0 for none
BreakEnd(s) ==
    IF s = <<>> \/ Head(s) # "\n" THEN 0
    ELSE LET ends == {j \in 2..Len(s) :
                         /\ s[j] = "\n"
                         /\ \A k \in 2..(j - 1) : s[k] \in Whitespace}
         IN  IF ends = {} THEN 0 ELSE CHOOSE j \in ends : \A k \in ends : k <= j

\* .replace(/\n\s*\n/g, '\n\n')
RECURSIVE CollapseBreaks(_)
CollapseBreaks(s) ==
    IF s = <<>> THEN <<>>
    ELSE IF BreakEnd(s) > 0
         THEN <<"\n", "\n">> \o CollapseBreaks(SubSeq(s, BreakEnd(s) + 1, Len(s)))
         ELSE <<Head(s)>> \o CollapseBreaks(Tail(s))

\* .replace(/[^\x20-\x7E\n]/g, '')
Printable(c) == c \in {"a", " ", "\n"}
StripNonPrintable(s) == SelectSeq(s, Printable)

RECURSIVE TrimWhitespace(_)
TrimWhitespace(s) ==
    IF s = <<>> THEN s
    ELSE IF Head(s) \in Whitespace THEN TrimWhitespace(Tail(s))
    ELSE IF s[Len(s)] \in Whitespace THEN TrimWhitespace(SubSeq(s, 1, Len(s) - 1))
    ELSE s

cleanContent(content) ==
    TrimWhitespace(StripNonPrintable(CollapseBreaks(CollapseWhitespace(content))))

\* the record-derivation harness is not in use
RdOff == [on |-> FALSE, task |-> "none", done |-> FALSE, text |-> <<>>,
          url |-> NoUrl, content |-> <<>>, title |-> TitleOfWords(<<>>),
          cleaned |-> <<>>, source |-> <<>>]

--------------------------------------------------------------------------
(* EmailSender *)

\* no dispatcher was constructed
NoMailConfig == [host |-> FALSE, user |-> FALSE, password |-> FALSE]

\* validateConfig(): host, user and password are all given
validateConfig(host, user, password) == host /\ user /\ password

\* The dispatcher's code up to its next suspension point is a function of
\* this.transporter, this.isConfigured and the recipients.  It gives
\*   next: "verify" (awaiting transporter.verify()), "sendmail" (awaiting
\*         transporter.sendMail()) or "throw";
\*   err: what it throws;  tr: this.transporter afterwards;
\*   ev: the calls made on the SMTP library, in order.
MailStep(next, err, tr, ev) == [next |-> next, err |-> err, tr |-> tr, ev |-> ev]

\* an init() without the test of this.isConfigured
initUnchecked(tr, configured) ==
    MailStep("verify", "none", "created", <<"createTransport", "verify">>)

\* init() up to the await of verify()
init(tr, configured) ==
    IF ~configured
    THEN MailStep("throw", "EmailConfig", tr, <<>>)
    ELSE MailStep("verify", "none", "created", <<"createTransport", "verify">>)

\* sendQuoteEmail() from its recipients check to the await of sendMail()
sendAfterInit(tr, rcpts) ==
    IF Len(rcpts) = 0
    THEN MailStep("throw", "NoRecipients", tr, <<>>)
    ELSE MailStep("sendmail", "none", tr, <<"sendMail">>)

\* sendQuoteEmail() from its call to its first suspension point
sendQuoteEmail(tr, configured, rcpts) ==
    IF tr = "null" THEN init(tr, configured) ELSE sendAfterInit(tr, rcpts)

\* sendQuoteEmail() resumed when verify() has settled
sendAfterVerify(tr, rcpts, verified) ==
    IF ~verified
    THEN MailStep("throw", "VerifyFailed", tr, <<>>)
    ELSE sendAfterInit(tr, rcpts)

\* sendQuoteEmail() resumed when sendMail() has settled
sendAfterSubmit(tr, delivered) ==
    IF delivered
    THEN MailStep("return", "none", tr, <<>>)
    ELSE MailStep("throw", "SendFailed", tr, <<>>)

--------------------------------------------------------------------------
(* Config *)

\* the recipient lists getEmailRecipients() may give: EMAIL_RECIPIENTS split
\* at commas, trimmed, empty items dropped
RecipientLists == {<<>>, <<"r@x.io">>, <<"r@x.io", "malformed">>}

\* validateConnections(): the issues it reports
validateConnections(prov, key, rcpts) ==
    (IF prov \in {"openai", "anthropic", "gemini"} /\ key = "malformed"
        THEN {"ApiKeyFormat"} ELSE {})
    \cup (IF Len(rcpts) = 0 THEN {"NoRecipient"} ELSE {})
    \cup {"InvalidEmail" : k \in {j \in 1..Len(rcpts) : rcpts[j] = "malformed"}}

\* os.platform()
Platforms == {"win32", "darwin", "linux", "freebsd"}

\* the providers that need an API key
HostedKinds == {"openai", "anthropic", "gemini"}

\* an override variable: not set, set to '', or set to a provider
OverrideValues == {"unset", "", "anthropic", "ollama"}

\* EMAIL_RECIPIENTS as its comma-separated items, " " an item that trims to ''
RawRecipients == {<<" ">>, <<"r@x.io">>, <<"r@x.io", " ", "malformed">>}
UnsetRecipients == <<"<unset>">>

\* process.env, as far as the schema and the validations read it
Envs ==
    [platform : Platforms,
     AI_PROVIDER : ProviderKinds \cup {"unset", "bogus"},
     AI_PROVIDER_WINDOWS : OverrideValues,
     AI_PROVIDER_MACOS : OverrideValues,
     AI_PROVIDER_LINUX : OverrideValues,
     OPENAI_API_KEY : {"unset", "malformed", "wellformed"},
     ANTHROPIC_API_KEY : {"unset", "wellformed"},
     GEMINI_API_KEY : {"unset", "wellformed"},
     EMAIL_HOST : BOOLEAN,
     EMAIL_USER : BOOLEAN,
     EMAIL_RECIPIENTS : RawRecipients \cup {UnsetRecipients}]

NoEnv == [platform |-> "none"]

\* configSchema.validate(process.env) with Joi's default options: the keys
\* are checked in schema order and the first failure ends the validation
\* (abortEarly), so error.message names that one key
JoiViolations(env) ==
    (IF env.AI_PROVIDER = "bogus" THEN <<"AI_PROVIDER">> ELSE <<>>)
    \o (IF ~env.EMAIL_HOST THEN <<"EMAIL_HOST">> ELSE <<>>)
    \o (IF ~env.EMAIL_USER THEN <<"EMAIL_USER">> ELSE <<>>)
    \o (IF env.EMAIL_RECIPIENTS = UnsetRecipients THEN <<"EMAIL_RECIPIENTS">> ELSE <<>>)

JoiError(env) ==
    IF JoiViolations(env) = <<>> THEN {} ELSE {Head(JoiViolations(env))}

\* this.validated.AI_PROVIDER: the schema's default is 'openai'
DefaultProvider(env) == IF env.AI_PROVIDER = "unset" THEN "openai" ELSE env.AI_PROVIDER

\* the switch on os.platform(): the override read for this OS, null
\* ("unset") on any other platform
PlatformProvider(env) ==
    CASE env.platform = "win32"  -> env.AI_PROVIDER_WINDOWS
      [] env.platform = "darwin" -> env.AI_PROVIDER_MACOS
      [] env.platform = "linux"  -> env.AI_PROVIDER_LINUX
      [] OTHER -> "unset"

\* the API key variable of a hosted provider
ApiKeyOf(env, prov) ==
    CASE prov = "openai"    -> env.OPENAI_API_KEY
      [] prov = "anthropic" -> env.ANTHROPIC_API_KEY
      [] prov = "gemini"    -> env.GEMINI_API_KEY
      [] OTHER -> "unset"

\* a validation that checks the default provider on every platform
RequirementsProviderDefault(env) == DefaultProvider(env)

\* validatePlatformSpecificRequirements(): the provider it checks, and the
\* issues it throws
RequirementsProvider(env) ==
    IF PlatformProvider(env) \notin {"unset", ""} THEN PlatformProvider(env)
    ELSE DefaultProvider(env)

validatePlatformSpecificRequirements(env) ==
    IF RequirementsProvider(env) \in HostedKinds
          /\ ApiKeyOf(env, RequirementsProvider(env)) = "unset"
    THEN {"API_KEY"}
    ELSE {}

\* getPlatformSpecificProvider()
getPlatformSpecificProvider(env) ==
    IF PlatformProvider(env) \notin {"unset", ""} THEN PlatformProvider(env)
    ELSE DefaultProvider(env)

\* getAIConfig(): the provider and whether the config carries an apiKey
getAIConfig(env) ==
    [provider |-> getPlatformSpecificProvider(env),
     hasKey |-> ApiKeyOf(env, getPlatformSpecificProvider(env)) # "unset"]

\* getEmailRecipients(): split at commas, trim, drop the empty items
getEmailRecipients(raw) == SelectSeq(raw, LAMBDA item : item # " ")

\* new Config(): validate() throws the schema's error, or the issues of
\* validatePlatformSpecificRequirements()
validate(env) ==
    IF JoiError(env) # {} THEN JoiError(env)
    ELSE validatePlatformSpecificRequirements(env)

\* the values the schema admits for the model names, AI_MAX_TOKENS
\* (100..2000) and AI_TEMPERATURE (0..2, here in tenths)
AiSettings == [model : {"configured-model"}, maxTokens : {100, 500, 2000},
               temperature : {0, 7, 20}]
NoAiSettings == [model |-> "", maxTokens |-> 0, temperature |-> 0]

\* the config harness is not in use
CfOff == [on |-> FALSE, task |-> "none", env |-> NoEnv, impl |-> "current",
          kind |-> "none", hasKey |-> FALSE, stage |-> "off", reported |-> {},
          built |-> "unset", ai |-> NoAiSettings, request |-> NoAiSettings]

--------------------------------------------------------------------------
(* RickOwensQuoteBot.processQuote *)

\* process.exit was not called
NoExit == -1

\* An invocation of processQuote():
\*   pc      where it is suspended: "loading" (readFile), "pipeline" (the
\*           transformers pipeline under construction), "ai" (the backend
\*           call), "verify" (transporter.verify), "sendmail"
\*           (transporter.sendMail); "idle" before the call, "done" after
\*   trace   the calls it made on its collaborators, in order
\*   result  "skipped" (the early return), "ok" (the summary returned),
\*           "threw"
\*   err     the error it rethrew;  raised: the errors raised inside it
\*   reply   the backend's reply
\*   busy    this.isRunning as the invocation found it
\*   overlap whether another invocation was suspended when this one was called
\*   handled what its caller did with the outcome
NewCall == [pc |-> "idle", trace |-> <<>>, result |-> "none", err |-> "none",
            raised |-> <<>>, reply |-> Unset, busy |-> FALSE, overlap |-> FALSE,
            handled |-> "none"]

Did(c, ev) == [c EXCEPT !.trace = @ \o ev]
Await(c, pc) == [c EXCEPT !.pc = pc]
Return(c, result) == [c EXCEPT !.pc = "done", !.result = result]

\* the catch block of processQuote(): log, rethrow the error caught
processQuoteCatch(c, error) == [c EXCEPT !.pc = "done", !.result = "threw", !.err = error]

\* an error is raised inside the try block
Raise(c, error) == processQuoteCatch([c EXCEPT !.raised = Append(@, error)], error)

\* processQuote() clearing the guard at the end of the try block only
processQuoteFinallyOnSuccess(c, guard) ==
    IF c.pc = "done" /\ c.result = "ok" THEN FALSE ELSE guard

\* processQuote() without its finally block: the guard stays as it is
processQuoteFinallyKeeping(c, guard) == guard

\* the finally block of processQuote(): the guard an invocation leaves, given the
\* guard its code so far has left
processQuoteFinally(c, guard) ==
    IF c.pc = "done" /\ c.result # "skipped" THEN FALSE ELSE guard

\* extractQuotes() from its call to its first suspension point
extractStart(c, prov, pipe) ==
    IF prov = "transformers" /\ ~pipe
    THEN Await(Did(c, <<"pipeline">>), "pipeline")
    ELSE Await(Did(c, <<"ai">>), "ai")

\* processQuote() from the interview returned by getRandomInterview() on; every
\* record held has content (longer than MinContentLength), so the test
\* !interview.content never fails
afterFetch(c, iv, prov, pipe) ==
    IF RandomInterviewError(iv) # "none"
    THEN Raise(c, RandomInterviewError(iv))
    ELSE extractStart(c, prov, pipe)

\* processQuote() without the test of the guard
processQuoteStartUnguarded(c, running, iv, llt, t, prov, pipe) ==
    IF NeedsLoad(iv, llt, t)
    THEN Await(Did(c, <<"fetch", "readFile">>), "loading")
    ELSE afterFetch(Did(c, <<"fetch">>), iv, prov, pipe)

\* processQuote() from its call to its first suspension point
processQuoteStart(c, running, iv, llt, t, prov, pipe) ==
    IF running
    THEN Return([c EXCEPT !.busy = TRUE], "skipped")
    ELSE IF NeedsLoad(iv, llt, t)
         THEN Await(Did(c, <<"fetch", "readFile">>), "loading")
         ELSE afterFetch(Did(c, <<"fetch">>), iv, prov, pipe)

\* processQuote() resumed with the quotes extractQuotes() returned
afterExtract(c, outcome, m) ==
    CASE outcome.tag = "threw"  -> Raise(c, outcome.err)
      [] outcome.tag = "absent" -> Raise(c, "NoQuotes")
      [] OTHER -> IF m.next = "throw"
                  THEN Raise(Did(c, m.ev), m.err)
                  ELSE Await(Did(c, m.ev), m.next)

\* processQuote() submitting the message again when sendMail() failed
afterMailRetrying(c, m) ==
    CASE m.next = "throw" /\ m.err = "SendFailed" -> Await(Did(c, <<"sendMail">>), "sendmail")
      [] m.next = "throw" /\ m.err # "SendFailed" -> Raise(Did(c, m.ev), m.err)
      [] m.next = "return" -> Return(Did(c, m.ev), "ok")
      [] OTHER -> Await(Did(c, m.ev), m.next)

\* processQuote() resumed with a step of sendQuoteEmail()
afterMail(c, m) ==
    CASE m.next = "throw"  -> Raise(Did(c, m.ev), m.err)
      [] m.next = "return" -> Return(Did(c, m.ev), "ok")
      [] OTHER -> Await(Did(c, m.ev), m.next)

\* the cron callback without its try block: the failure reaches start()'s catch
CallerNotCatching(c, mode) ==
    IF c.pc # "done" THEN "none"
    ELSE IF c.result = "threw" THEN "exit1"
    ELSE IF mode = "single" THEN "exit0" ELSE "returned"

\* start() without its catch block around the single run
CallerExitingZero(c, mode) ==
    IF c.pc # "done" THEN "none"
    ELSE IF mode = "single" THEN "exit0"
    ELSE (IF c.result = "threw" THEN "logged" ELSE "returned")

\* what the caller of a finished invocation does: start() exits with 0 after
\* the single run and with 1 from its catch block; the cron callback logs
\* the error and returns
Caller(c, mode) ==
    IF c.pc # "done" THEN "none"
    ELSE IF mode = "single"
         THEN (IF c.result = "threw" THEN "exit1" ELSE "exit0")
         ELSE (IF c.result = "threw" THEN "logged" ELSE "returned")

\* the turn of the event loop that ran invocation i up to record c, `guard`
\* being the guard its code left before any finally block
Turn(i, c, guard, mode) ==
    LET how == Caller(c, mode)
    IN  /\ calls' = [calls EXCEPT ![i] = [c EXCEPT !.handled = how]]
        /\ isRunning' = processQuoteFinally(c, guard)
        /\ pstate' = IF how \in {"exit0", "exit1"} THEN "exited" ELSE mode
        /\ exitCode' = CASE how = "exit0" -> 0
                         [] how = "exit1" -> 1
                         [] OTHER -> exitCode

Suspended(c) == c.pc \notin {"idle", "done"}

\* processQuote() is called: invocation nCalls + 1
Invoke(mode) ==
    LET i == nCalls + 1
        c0 == [NewCall EXCEPT !.overlap = \E k \in DOMAIN calls : Suspended(calls[k])]
        c == processQuoteStart(c0, isRunning, interviews, lastLoadTime, now,
                               provider, transformersPipeline)
    IN  /\ nCalls < MaxCalls
        /\ nCalls' = i
        /\ Turn(i, c, IF c.result = "skipped" THEN isRunning ELSE TRUE, mode)

Live == pstate \in {"single", "scheduled"}

\* readFile settles for invocation i
LoadDone(i) ==
    /\ Live /\ calls[i].pc = "loading"
    /\ LET l == loadInterviews(doc, interviews, lastLoadTime, now)
           c == IF l.err # "none"
                THEN Raise(calls[i], l.err)
                ELSE afterFetch(calls[i], l.interviews, provider, transformersPipeline)
       IN  /\ interviews' = l.interviews
           /\ lastLoadTime' = l.lastLoadTime
           /\ Turn(i, c, isRunning, pstate)
    /\ UNCHANGED <<runOnce, jobActive, nCalls, cfgVars, transformersPipeline,
                   now, doc, mailVars, xq, sr, cf, rd, lx>>

\* the construction of the transformers pipeline settles for invocation i
PipelineDone(i, ok) ==
    /\ Live /\ calls[i].pc = "pipeline"
    /\ transformersPipeline' = ok
    /\ Turn(i, IF ok THEN Await(Did(calls[i], <<"ai">>), "ai")
               ELSE Raise(calls[i], "ProviderError"),
            isRunning, pstate)
    /\ UNCHANGED <<runOnce, jobActive, nCalls, cfgVars, storeVars, mailVars, xq, sr, cf, rd, lx>>

\* the replies the backend gives the bot
BotReplies == {Failure, Undefined, Sentinel, <<"\"", "ERROR_NO_QUOTE", "\"">>, <<"a">>}

\* the backend call settles for invocation i
AiDone(i, reply) ==
    /\ Live /\ calls[i].pc = "ai"
    /\ LET m == sendQuoteEmail(transporter, isConfigured, recipients)
           outcome == extractQuotes(provider, reply)
           c == afterExtract([calls[i] EXCEPT !.reply = reply], outcome, m)
       IN  /\ transporter' = IF outcome.tag = "quotes" THEN m.tr ELSE transporter
           /\ Turn(i, c, isRunning, pstate)
    /\ UNCHANGED <<runOnce, jobActive, nCalls, cfgVars, transformersPipeline,
                   storeVars, mailConfig, isConfigured, mailOps, nMailOps, xq, sr, cf, rd, lx>>

\* transporter.verify() settles for invocation i
VerifyDone(i, verified) ==
    /\ Live /\ calls[i].pc = "verify"
    /\ Turn(i, afterMail(calls[i], sendAfterVerify(transporter, recipients, verified)),
            isRunning, pstate)
    /\ UNCHANGED <<runOnce, jobActive, nCalls, cfgVars, transformersPipeline,
                   storeVars, mailVars, xq, sr, cf, rd, lx>>

\* transporter.sendMail() settles for invocation i
SendMailDone(i, delivered) ==
    /\ Live /\ calls[i].pc = "sendmail"
    /\ Turn(i, afterMail(calls[i], sendAfterSubmit(transporter, delivered)),
            isRunning, pstate)
    /\ UNCHANGED <<runOnce, jobActive, nCalls, cfgVars, transformersPipeline,
                   storeVars, mailVars, xq, sr, cf, rd, lx>>

--------------------------------------------------------------------------
(* RickOwensQuoteBot.start *)

\* start(): init(), then the single run is called or the CronJob registered
Boot ==
    /\ pstate = "boot"
    /\ IF validateConnections(provider, apiKey, recipients) # {}
       THEN /\ pstate' = "exited"
            /\ exitCode' = 1
            /\ UNCHANGED <<isRunning, jobActive, calls, nCalls>>
       ELSE IF runOnce
            THEN Invoke("single") /\ UNCHANGED jobActive
            ELSE /\ pstate' = "scheduled"
                 /\ jobActive' = TRUE
                 /\ UNCHANGED <<isRunning, exitCode, calls, nCalls>>
    /\ UNCHANGED <<runOnce, cfgVars, transformersPipeline, storeVars, mailVars, xq, sr, cf, rd, lx>>

\* the CronJob fires: its callback calls processQuote()
Fire ==
    /\ pstate = "scheduled" /\ jobActive
    /\ Invoke("scheduled")
    /\ UNCHANGED <<runOnce, jobActive, cfgVars, transformersPipeline, storeVars,
                   mailVars, xq, sr, cf, rd, lx>>

\* SIGINT in scheduled mode: job.stop(), process.exit(0)
Sigint ==
    /\ pstate = "scheduled"
    /\ jobActive' = FALSE
    /\ pstate' = "exited"
    /\ exitCode' = 0
    /\ UNCHANGED <<isRunning, runOnce, calls, nCalls, cfgVars, transformersPipeline,
                   storeVars, mailVars, xq, sr, cf, rd, lx>>

\* time passes
Tick(d) ==
    /\ Live
    /\ now + d <= MaxTicks * (StaleAfter + 1)
    /\ now' = now + d
    /\ UNCHANGED <<botVars, cfgVars, transformersPipeline, interviews, lastLoadTime,
                   doc, mailVars, xq, sr, cf, rd, lx>>

CallIds == 1..MaxCalls

BotInit ==
    /\ isRunning = FALSE
    /\ pstate = "boot"
    /\ exitCode = NoExit
    /\ runOnce \in BOOLEAN
    /\ jobActive = FALSE
    /\ calls = [i \in CallIds |-> NewCall]
    /\ nCalls = 0
    /\ provider \in ProviderKinds
    /\ apiKey \in {"wellformed", "malformed"}
    /\ recipients \in RecipientLists
    /\ transformersPipeline = FALSE
    /\ interviews = NoInterviews
    /\ lastLoadTime = NullTime
    /\ now = 0
    /\ doc \in Documents
    /\ mailConfig = [host |-> TRUE, user |-> TRUE, password |-> TRUE]
    /\ isConfigured = validateConfig(TRUE, TRUE, TRUE)
    /\ transporter = "null"

MailOff ==
    /\ mailOps = <<>>
    /\ nMailOps = 0

Init == BotInit /\ MailOff /\ xq = XqOff /\ sr = SrOff /\ cf = CfOff /\ rd = RdOff /\ lx = LxOff

Next ==
    \/ Boot
    \/ Fire
    \/ Sigint
    \/ \E d \in {StaleAfter, StaleAfter + 1} : Tick(d)
    \/ \E i \in CallIds : LoadDone(i)
    \/ \E i \in CallIds, ok \in BOOLEAN : PipelineDone(i, ok)
    \/ \E i \in CallIds, reply \in BotReplies : AiDone(i, reply)
    \/ \E i \in CallIds, ok \in BOOLEAN : VerifyDone(i, ok)
    \/ \E i \in CallIds, ok \in BOOLEAN : SendMailDone(i, ok)

Spec == Init /\ [][Next]_vars

--------------------------------------------------------------------------
(* The dispatcher on its own: an EmailSender constructed from any config,  *)
(* its operations called in any order, also while another is suspended.   *)

\* A dispatcher operation: op is "send" (sendQuoteEmail) or "test"
\* (testConnection); pc is "verify" (init's verify), "reverify"
\* (testConnection's own verify), "sendmail", "idle" or "done"; result is
\* "returned", "threw", "true" or "false"; verified tells that a verify()
\* it awaited has succeeded.
NewMailOp == [op |-> "none", pc |-> "idle", rcpts |-> <<>>, trace |-> <<>>,
              result |-> "none", err |-> "none", verified |-> FALSE]

MailOpIds == 1..MaxMailOps

\* a dispatcher operation after the step m of the dispatcher's code
MailOpAfter(o, m) ==
    CASE m.next = "throw"  -> [o EXCEPT !.pc = "done", !.result = "threw", !.err = m.err,
                                        !.trace = @ \o m.ev]
      [] m.next = "return" -> [o EXCEPT !.pc = "done", !.result = "returned",
                                        !.trace = @ \o m.ev]
      [] OTHER -> [o EXCEPT !.pc = m.next, !.trace = @ \o m.ev]

\* testConnection() from its call to its first suspension point
testConnection(tr, configured) ==
    IF tr = "null"
    THEN LET m == init(tr, configured)
         IN  IF m.next = "throw" THEN MailStep("false", m.err, m.tr, m.ev) ELSE m
    ELSE MailStep("reverify", "none", tr, <<"verify">>)

\* testConnection() resumed when a verify() has settled
testAfterVerify(tr, pc, verified) ==
    IF ~verified THEN MailStep("false", "VerifyFailed", tr, <<>>)
    ELSE IF pc = "verify" THEN MailStep("reverify", "none", tr, <<"verify">>)
    ELSE MailStep("true", "none", tr, <<>>)

\* a testConnection() after the step m
TestOpAfter(o, m) ==
    IF m.next \in {"true", "false"}
    THEN [o EXCEPT !.pc = "done", !.result = m.next, !.err = m.err, !.trace = @ \o m.ev]
    ELSE [o EXCEPT !.pc = m.next, !.trace = @ \o m.ev]

\* sendQuoteEmail(rcpts, ...) is called
MSend(rcpts) ==
    LET j == nMailOps + 1
        m == sendQuoteEmail(transporter, isConfigured, rcpts)
    IN  /\ nMailOps < MaxMailOps
        /\ nMailOps' = j
        /\ transporter' = m.tr
        /\ mailOps' = [mailOps EXCEPT ![j] =
                          MailOpAfter([NewMailOp EXCEPT !.op = "send", !.rcpts = rcpts], m)]
        /\ UNCHANGED <<botVars, cfgVars, transformersPipeline, storeVars, mailConfig, isConfigured, xq, sr, cf, rd, lx>>

\* testConnection() is called
MTest ==
    LET j == nMailOps + 1
        m == testConnection(transporter, isConfigured)
    IN  /\ nMailOps < MaxMailOps
        /\ nMailOps' = j
        /\ transporter' = m.tr
        /\ mailOps' = [mailOps EXCEPT ![j] = TestOpAfter([NewMailOp EXCEPT !.op = "test"], m)]
        /\ UNCHANGED <<botVars, cfgVars, transformersPipeline, storeVars, mailConfig, isConfigured, xq, sr, cf, rd, lx>>

\* a transporter.verify() settles for operation j
MVerifyDone(j, verified) ==
    /\ mailOps[j].pc \in {"verify", "reverify"}
    /\ mailOps' = [mailOps EXCEPT ![j] =
          [(IF mailOps[j].op = "send"
            THEN MailOpAfter(@, sendAfterVerify(transporter, @.rcpts, verified))
            ELSE TestOpAfter(@, testAfterVerify(transporter, @.pc, verified)))
           EXCEPT !.verified = @ \/ verified]]
    /\ UNCHANGED <<botVars, cfgVars, transformersPipeline, storeVars, mailConfig, isConfigured,
                   transporter, nMailOps, xq, sr, cf, rd, lx>>

\* transporter.sendMail() settles for operation j
MSubmitDone(j, delivered) ==
    /\ mailOps[j].pc = "sendmail"
    /\ mailOps' = [mailOps EXCEPT ![j] = MailOpAfter(@, sendAfterSubmit(transporter, delivered))]
    /\ UNCHANGED <<botVars, cfgVars, transformersPipeline, storeVars, mailConfig, isConfigured,
                   transporter, nMailOps, xq, sr, cf, rd, lx>>

\* the bot is not part of the behaviour
BotOff ==
    /\ isRunning = FALSE
    /\ pstate = "off"
    /\ exitCode = NoExit
    /\ runOnce = FALSE
    /\ jobActive = FALSE
    /\ calls = <<>>
    /\ nCalls = 0
    /\ provider = "openai"
    /\ apiKey = "wellformed"
    /\ recipients = <<>>
    /\ transformersPipeline = FALSE
    /\ interviews = NoInterviews
    /\ lastLoadTime = NullTime
    /\ now = 0
    /\ doc = [kind |-> "array", entries |-> <<>>]

\* new EmailSender(config), host, user and password given or not
MailInit ==
    /\ BotOff
    /\ mailConfig \in [host : BOOLEAN, user : BOOLEAN, password : BOOLEAN]
    /\ isConfigured = validateConfig(mailConfig.host, mailConfig.user, mailConfig.password)
    /\ transporter = "null"
    /\ mailOps = [j \in MailOpIds |-> NewMailOp]
    /\ nMailOps = 0
    /\ xq = XqOff
    /\ sr = SrOff
    /\ cf = CfOff /\ rd = RdOff /\ lx = LxOff

MailNext ==
    \/ \E rcpts \in RecipientLists : MSend(rcpts)
    \/ MTest
    \/ \E j \in MailOpIds, ok \in BOOLEAN : MVerifyDone(j, ok)
    \/ \E j \in MailOpIds, ok \in BOOLEAN : MSubmitDone(j, ok)

SpecMail == MailInit /\ [][MailNext]_vars

--------------------------------------------------------------------------
(* The quote provider on its own: one extraction, for each implementation, *)
(* provider kind and backend reply.                                        *)

ExtractInit ==
    /\ BotOff
    /\ mailConfig = NoMailConfig
    /\ isConfigured = FALSE
    /\ transporter = "null"
    /\ MailOff
    /\ XqInit
    /\ sr = SrOff
    /\ cf = CfOff /\ rd = RdOff /\ lx = LxOff

ExtractNext ==
    \/ XClean
    \/ XCleanAgain
    \/ XExtract
    \/ XExtractQuote

SpecExtract == ExtractInit /\ [][ExtractNext]_vars

--------------------------------------------------------------------------
(* The interview store on its own: its operations called in any order,    *)
(* also while another is suspended, the clock advancing and the document   *)
(* changing on disk in between.                                            *)

StoreOpIds == 1..MaxStoreOps

srFrame == <<botVars, cfgVars, transformersPipeline, mailVars, xq, cf, rd, lx>>

\* the operation a call starts, with the time and the cache it found
\* how many of the operations ops completed a load that succeeded
SuccessfulLoads(ops) ==
    Cardinality({i \in DOMAIN ops : /\ ops[i].loads = 1 /\ ops[i].pc = "done"
                                    /\ ops[i].err \notin LoadErrors})

Issued(op, id) ==
    [NewStoreOp EXCEPT !.op = op, !.id = id, !.at = now, !.cache = interviews,
                       !.llt = lastLoadTime, !.seen = SuccessfulLoads(sr.ops)]

\* getRandomInterview(), getAllInterviews() or getInterviewById(id) is
\* called: it awaits loadInterviews() if the cache is absent or stale, and
\* answers from the cache at once otherwise
SRead(op, id) ==
    /\ sr.n < MaxStoreOps
    /\ (op = "getById") = (id # 0)
    /\ LET o == Issued(op, id)
       IN  IF NeedsLoad(interviews, lastLoadTime, now)
           THEN sr' = [sr EXCEPT !.n = @ + 1,
                          !.ops[sr.n + 1] = [o EXCEPT !.pc = "readFile", !.loads = 1]]
           ELSE \E k \in Picks(interviews) :
                   sr' = [sr EXCEPT !.n = @ + 1, !.ops[sr.n + 1] = Serve(o, interviews, k)]
    /\ UNCHANGED <<storeVars, srFrame>>

\* loadInterviews() is called directly
SLoad ==
    /\ sr.n < MaxStoreOps
    /\ sr' = [sr EXCEPT !.n = @ + 1,
                 !.ops[sr.n + 1] = [Issued("load", 0) EXCEPT !.pc = "readFile", !.loads = 1]]
    /\ UNCHANGED <<storeVars, srFrame>>

\* reload() is called: it discards the cache and awaits loadInterviews()
SReload ==
    /\ sr.n < MaxStoreOps
    /\ interviews' = NoInterviews
    /\ lastLoadTime' = NullTime
    /\ sr' = [sr EXCEPT !.n = @ + 1,
                 !.ops[sr.n + 1] = [Issued("reload", 0) EXCEPT !.pc = "readFile", !.loads = 1]]
    /\ UNCHANGED <<now, doc, srFrame>>

\* readFile settles for operation j: loadInterviews() runs to its end and
\* the operation that awaited it answers
SReadFileDone(j) ==
    /\ sr.ops[j].pc = "readFile"
    /\ LET l == loadInterviews(doc, interviews, lastLoadTime, now)
       IN  /\ interviews' = l.interviews
           /\ lastLoadTime' = l.lastLoadTime
           /\ \E k \in Picks(l.interviews) :
                 sr' = [sr EXCEPT !.ops[j] = AfterLoad([@ EXCEPT !.read = doc], l, k),
                           !.last = IF l.err = "none"
                                    THEN [any |-> TRUE, t |-> now, list |-> l.interviews.list]
                                    ELSE @]
    /\ UNCHANGED <<now, doc, srFrame>>

\* the document is rewritten on disk (a rewrite before the first read of
\* the file is a different initial document)
SDocChange(d) ==
    /\ sr.changes < MaxDocChanges
    /\ \E j \in StoreOpIds : sr.ops[j].read # NoDoc
    /\ d # doc
    /\ doc' = d
    /\ sr' = [sr EXCEPT !.changes = @ + 1]
    /\ UNCHANGED <<interviews, lastLoadTime, now, srFrame>>

\* time passes
STick(d) ==
    /\ now + d <= MaxTicks * (StaleAfter + 1)
    /\ now' = now + d
    /\ UNCHANGED <<interviews, lastLoadTime, doc, sr, srFrame>>

\* new InterviewReader(options)
StoreInit ==
    /\ isRunning = FALSE
    /\ pstate = "off"
    /\ exitCode = NoExit
    /\ runOnce = FALSE
    /\ jobActive = FALSE
    /\ calls = <<>>
    /\ nCalls = 0
    /\ provider = "openai"
    /\ apiKey = "wellformed"
    /\ recipients = <<>>
    /\ transformersPipeline = FALSE
    /\ interviews = NoInterviews
    /\ lastLoadTime = NullTime
    /\ now = 0
    /\ doc \in DocumentsUpTo(MaxStoreDoc)
    /\ mailConfig = NoMailConfig
    /\ isConfigured = FALSE
    /\ transporter = "null"
    /\ MailOff
    /\ xq = XqOff
    /\ sr = [SrOff EXCEPT !.on = TRUE, !.ops = [j \in StoreOpIds |-> NewStoreOp]]
    /\ cf = CfOff /\ rd = RdOff /\ lx = LxOff

StoreNext ==
    \/ \E op \in ReadOps, id \in 0..(MaxStoreDoc + 1) : SRead(op, id)
    \/ SLoad
    \/ SReload
    \/ \E j \in StoreOpIds : SReadFileDone(j)
    \/ \E d \in DocumentsUpTo(MaxStoreDoc) : SDocChange(d)
    \/ \E d \in {StaleAfter, StaleAfter + 1} : STick(d)

SpecStore == StoreInit /\ [][StoreNext]_vars

--------------------------------------------------------------------------
(* The configuration on its own: for each environment, the startup          *)
(* validations and the construction of the quote provider; and the quote   *)
(* provider constructed from any config.                                   *)

cfFrame == <<botVars, cfgVars, transformersPipeline, storeVars, mailVars, xq, sr, rd, lx>>

\* new QuoteExtractor(config) is called directly
CConstruct ==
    /\ cf.task = "construct" /\ cf.built = "unset"
    /\ cf' = [cf EXCEPT !.built = QuoteExtractorOf(cf.impl, cf.kind, cf.hasKey)]
    /\ UNCHANGED cfFrame

\* extractQuotes() calls the backend of the provider
CRequest ==
    /\ cf.task = "request" /\ cf.request = NoAiSettings
    /\ cf' = [cf EXCEPT !.request = BackendRequest(cf.kind, cf.ai)]
    /\ UNCHANGED cfFrame

\* the config module is imported: new Config() validates process.env
CValidate ==
    /\ cf.task = "startup" /\ cf.stage = "fresh"
    /\ cf' = [cf EXCEPT !.reported = validate(cf.env),
                        !.stage = IF validate(cf.env) = {} THEN "validated" ELSE "failed"]
    /\ UNCHANGED cfFrame

\* bot.init(): validateConnections(), then the services are constructed,
\* the quote provider from getAIConfig()
CInit(impl) ==
    /\ cf.task = "startup" /\ cf.stage = "validated"
    /\ LET prov == getPlatformSpecificProvider(cf.env)
           issues == validateConnections(prov, ApiKeyOf(cf.env, prov),
                                         getEmailRecipients(cf.env.EMAIL_RECIPIENTS))
           ai == getAIConfig(cf.env)
           thrown == QuoteExtractorOf(impl, ai.provider, ai.hasKey)
       IN  IF issues # {}
           THEN cf' = [cf EXCEPT !.kind = prov, !.stage = "failed", !.reported = issues]
           ELSE cf' = [cf EXCEPT !.impl = impl, !.kind = ai.provider, !.hasKey = ai.hasKey,
                                 !.built = thrown,
                                 !.stage = IF thrown = "none" THEN "ready" ELSE "failed",
                                 !.reported = IF thrown = "none" THEN {} ELSE {thrown}]
    /\ UNCHANGED cfFrame

ConfigInit ==
    /\ BotOff
    /\ mailConfig = NoMailConfig
    /\ isConfigured = FALSE
    /\ transporter = "null"
    /\ MailOff
    /\ xq = XqOff
    /\ sr = SrOff /\ rd = RdOff /\ lx = LxOff
    /\ \/ \E impl \in Implementations, kind \in ProviderKinds \cup {"none", "bogus"},
             hasKey \in BOOLEAN :
             cf = [CfOff EXCEPT !.on = TRUE, !.task = "construct", !.impl = impl,
                                !.kind = kind, !.hasKey = hasKey]
       \/ \E kind \in ProviderKinds, ai \in AiSettings :
             cf = [CfOff EXCEPT !.on = TRUE, !.task = "request", !.kind = kind, !.ai = ai]
       \/ \E env \in Envs :
             cf = [CfOff EXCEPT !.on = TRUE, !.task = "startup", !.env = env,
                                !.stage = "fresh"]

ConfigNext ==
    \/ CConstruct
    \/ CRequest
    \/ CValidate
    \/ \E impl \in Implementations : CInit(impl)

SpecConfig == ConfigInit /\ [][ConfigNext]_vars

--------------------------------------------------------------------------
(* The derived fields of a record on their own: one title, one cleaned     *)
(* content or one source host, for each raw text and url.                  *)

rdFrame == <<botVars, cfgVars, transformersPipeline, storeVars, mailVars, xq, sr, cf, lx>>

RTitle ==
    /\ rd.task = "title" /\ ~rd.done
    /\ rd' = [rd EXCEPT !.done = TRUE, !.title = extractTitle(rd.text, rd.url)]
    /\ UNCHANGED rdFrame

RClean ==
    /\ rd.task = "content" /\ ~rd.done
    /\ rd' = [rd EXCEPT !.done = TRUE, !.cleaned = cleanContent(rd.content)]
    /\ UNCHANGED rdFrame

RSource ==
    /\ rd.task = "source" /\ ~rd.done
    /\ rd' = [rd EXCEPT !.done = TRUE, !.source = extractSource(rd.url)]
    /\ UNCHANGED rdFrame

RecordInit ==
    /\ BotOff
    /\ mailConfig = NoMailConfig
    /\ isConfigured = FALSE
    /\ transporter = "null"
    /\ MailOff
    /\ xq = XqOff
    /\ sr = SrOff
    /\ cf = CfOff
    /\ lx = LxOff
    /\ \/ \E content \in Contents :
             rd = [RdOff EXCEPT !.on = TRUE, !.task = "content", !.content = content]
       \/ \E url \in SourceUrls :
             rd = [RdOff EXCEPT !.on = TRUE, !.task = "source", !.url = url]
       \/ \E text \in Texts(MaxLines), url \in TitleUrls :
             rd = [RdOff EXCEPT !.on = TRUE, !.task = "title", !.text = text, !.url = url]

RecordNext ==
    \/ RTitle
    \/ RClean
    \/ RSource

SpecRecord == RecordInit /\ [][RecordNext]_vars

--------------------------------------------------------------------------
(* The local-inference backend on its own: extractWithTransformers() calls *)
(* on one QuoteExtractor, which may overlap.                               *)

lxFrame == <<botVars, cfgVars, storeVars, mailVars, xq, sr, cf, rd>>

\* a call runs up to its first await: of pipeline() when
\* this.transformersPipeline is not set, else of the pipeline itself
LExtract ==
    /\ lx.n < MaxPipelineCalls
    /\ lx' = [lx EXCEPT !.n = @ + 1,
                 !.calls = Append(@, IF transformersPipeline THEN "inferring" ELSE "building"),
                 !.attempts = IF transformersPipeline THEN @ ELSE @ + 1]
    /\ UNCHANGED <<transformersPipeline, lxFrame>>

\* pipeline() settles: the pipeline is assigned, or the call throws
LPipelineDone(i, ok) ==
    /\ i \in 1..lx.n /\ lx.calls[i] = "building"
    /\ transformersPipeline' = (ok \/ transformersPipeline)
    /\ lx' = [lx EXCEPT !.calls[i] = IF ok THEN "inferring" ELSE "threw",
                 !.constructions = IF ok THEN @ + 1 ELSE @]
    /\ UNCHANGED lxFrame

\* the pipeline call settles
LInferDone(i, ok) ==
    /\ i \in 1..lx.n /\ lx.calls[i] = "inferring"
    /\ lx' = [lx EXCEPT !.calls[i] = IF ok THEN "returned" ELSE "threw"]
    /\ UNCHANGED <<transformersPipeline, lxFrame>>

PipelineInit ==
    /\ BotOff
    /\ mailConfig = NoMailConfig
    /\ isConfigured = FALSE
    /\ transporter = "null"
    /\ MailOff
    /\ xq = XqOff
    /\ sr = SrOff
    /\ cf = CfOff
    /\ rd = RdOff
    /\ lx = [LxOff EXCEPT !.on = TRUE]

PipelineNext ==
    \/ LExtract
    \/ \E i \in 1..MaxPipelineCalls, ok \in BOOLEAN : LPipelineDone(i, ok)
    \/ \E i \in 1..MaxPipelineCalls, ok \in BOOLEAN : LInferDone(i, ok)

SpecPipeline == PipelineInit /\ [][PipelineNext]_vars

--------------------------------------------------------------------------
(* Properties of the orchestrator, under Spec *)

Count(trace, ev) == Cardinality({k \in 1..Len(trace) : trace[k] = ev})

MailEvents == {"createTransport", "verify", "sendMail"}

Touches(trace, evs) == \E k \in 1..Len(trace) : trace[k] \in evs

\* an invocation that passed the guard and has not finished
InFlight(i) == Suspended(calls[i])

\* C1: an invocation of processQuote() issued while another one has not
\* returned returns at once with no result: it fetches nothing, calls no
\* backend and sends nothing, and it leaves the guard set for the run in
\* progress, so that at most one run is in progress and the two invocations
\* together complete at most the one send of the first.
C1_ReentrantCallIsNoOp ==
    /\ \A i \in CallIds :
          calls[i].overlap =>
             /\ calls[i].pc = "done"
             /\ calls[i].result = "skipped"
             /\ calls[i].trace = <<>>
             /\ calls[i].err = "none"
    /\ Cardinality({i \in CallIds : InFlight(i)}) <= 1
    /\ (\E i \in CallIds : InFlight(i)) => isRunning
    /\ \A i \in CallIds : Count(calls[i].trace, "sendMail") <= 1

\* a second invocation was skipped while the first was in progress, and the
\* first went on to complete its send
C1_Witness ==
    /\ calls[2].overlap /\ calls[2].result = "skipped"
    /\ calls[1].result = "ok" /\ Count(calls[1].trace, "sendMail") = 1

\* C2: an invocation that set the guard has cleared it when it returns or
\* rethrows, whatever step failed: the guard is set only while a run is in
\* progress, and an invocation is skipped only when it was issued during a
\* run in progress, never because of a run that has finished.
C2_GuardReleasedOnEveryExit ==
    /\ isRunning => \E i \in CallIds : InFlight(i)
    /\ \A i \in CallIds :
          (calls[i].busy \/ calls[i].result = "skipped") => calls[i].overlap
    /\ \A i \in CallIds :
          (calls[i].pc = "done" /\ ~isRunning) => ~InFlight(i)

\* a run failed in its send step, the guard is clear and the next invocation
\* was not skipped
C2_Witness ==
    /\ calls[1].result = "threw" /\ calls[1].err = "SendFailed"
    /\ ~isRunning
    /\ calls[2].result = "ok"

BootFailed == validateConnections(provider, apiKey, recipients) # {}

\* C3: in scheduled mode a run that fails is caught and logged by the cron
\* callback: the process does not exit with a failure status, the job stays
\* registered until SIGINT, and a firing after the failure starts a run
\* unless it overlaps a run in progress.
C3_ScheduledFailureIsContained ==
    (~runOnce /\ ~BootFailed) =>
        /\ exitCode # 1
        /\ (pstate = "scheduled" => jobActive)
        /\ (pstate = "exited" => exitCode = 0 /\ ~jobActive)
        /\ \A i \in CallIds :
              /\ (calls[i].result = "threw" => calls[i].handled = "logged")
              /\ (i > 1 /\ calls[i - 1].result = "threw" /\ calls[i].pc # "idle"
                    /\ ~calls[i].overlap)
                 => "fetch" \in {calls[i].trace[k] : k \in 1..Len(calls[i].trace)}

\* a firing failed, the process is still scheduled, and the next firing ran
\* to a completed send
C3_Witness ==
    /\ ~runOnce /\ pstate = "scheduled" /\ jobActive
    /\ calls[1].result = "threw" /\ calls[1].handled = "logged"
    /\ calls[2].result = "ok"

\* C4: in single-run mode start() runs processQuote() once (never when init()
\* failed, never twice) and the process exits when that run finishes: with
\* status 0 when the run returned, with status 1 when the run threw or
\* init() failed.
C4_SingleRunExitStatus ==
    runOnce =>
        /\ nCalls <= 1
        /\ ~jobActive
        /\ (BootFailed => nCalls = 0)
        /\ (~BootFailed /\ pstate # "boot" => nCalls = 1 /\ ~calls[1].overlap)
        /\ (pstate = "exited") =
              (pstate # "boot" /\ (BootFailed \/ (nCalls = 1 /\ calls[1].pc = "done")))
        /\ (exitCode = 0) = (nCalls = 1 /\ calls[1].result = "ok")
        /\ (exitCode = 1) = (pstate = "exited" /\ (BootFailed \/ calls[1].result = "threw"))
        /\ (pstate = "exited" => exitCode \in {0, 1})

\* the single run succeeded and the process exited with status 0
C4_Witness ==
    /\ runOnce /\ pstate = "exited" /\ exitCode = 0
    /\ calls[1].result = "ok"

\* the place of a collaborator call in a run
Rank(ev) ==
    CASE ev = "fetch" -> 1
      [] ev = "readFile" -> 2
      [] ev = "pipeline" -> 3
      [] ev = "ai" -> 4
      [] ev = "createTransport" -> 5
      [] ev = "verify" -> 6
      [] ev = "sendMail" -> 7

FetchErrors == {"IOError", "SyntaxError", "NotArray", "TypeError", "NoInterviews"}
ExtractErrors == {"ProviderError", "NoQuotes", "UnsupportedProvider"}

\* C5: in an invocation that passed the guard the fetch, the backend call
\* and the send happen at most once each and in that order; the send only
\* after the extraction returned a quote; a step that failed is not
\* repeated and no later step runs after it; the error rethrown is the
\* first (and only) error raised.
C5_StepsOnceInOrder ==
    \A i \in CallIds :
        LET c == calls[i]
        IN  /\ \A k \in 1..Len(c.trace) - 1 : Rank(c.trace[k]) < Rank(c.trace[k + 1])
            /\ (c.result # "skipped" /\ c.pc # "idle") => c.trace[1] = "fetch"
            /\ Touches(c.trace, MailEvents) =>
                  /\ Touches(c.trace, {"ai"})
                  /\ c.reply \notin {Unset, Failure}
                  /\ ~Falsy(cleanQuote(ResponseText(provider, c.reply)))
                  /\ cleanQuote(ResponseText(provider, c.reply)) # Sentinel
            /\ (c.result = "threw") = (Len(c.raised) = 1)
            /\ (c.result # "threw") = (c.raised = <<>>)
            /\ c.result = "threw" => c.err = c.raised[1] /\ c.pc = "done"
            /\ c.err \in FetchErrors => ~Touches(c.trace, {"pipeline", "ai"} \cup MailEvents)
            /\ c.err \in ExtractErrors => ~Touches(c.trace, MailEvents)
            /\ c.err \in {"VerifyFailed", "EmailConfig", "NoRecipients"} =>
                  ~Touches(c.trace, {"sendMail"})
            /\ c.result = "ok" => Count(c.trace, "sendMail") = 1

\* a send failed after the whole pipeline ran once, in order
C5_Witness ==
    \E i \in CallIds :
        /\ calls[i].result = "threw" /\ calls[i].err = "SendFailed"
        /\ calls[i].trace = <<"fetch", "readFile", "ai", "createTransport", "verify", "sendMail">>

NoValidRecord ==
    /\ doc.kind = "array"
    /\ ~MapThrows(doc.entries)
    /\ \A k \in 1..Len(doc.entries) :
          ~(doc.entries[k].hasUrl /\ doc.entries[k].hasText
              /\ doc.entries[k].len > MinContentLength)

Started == {i \in 1..nCalls : calls[i].trace # <<>>}

\* the firings that arrived while no run was in progress
ArrivedClear == {i \in 1..nCalls : ~calls[i].overlap}

\* C21: in scheduled mode a firing that arrives while a run is in progress
\* is dropped for good: it has returned with no result and it never calls a
\* collaborator, also after the run in progress has finished; so the runs
\* started are exactly the firings that arrived while no run was in
\* progress, and at most one run is in progress.
C21_BusyFiringIsDropped ==
    ~runOnce =>
        /\ Started = ArrivedClear
        /\ \A i \in 1..nCalls :
              calls[i].overlap =>
                  /\ calls[i].pc = "done" /\ calls[i].result = "skipped"
                  /\ calls[i].trace = <<>>
        /\ Cardinality({i \in 1..nCalls : Suspended(calls[i])}) <= 1

\* the second firing arrived during the first run and was dropped; the
\* first run has finished since and the dropped firing has done nothing
C21_Witness ==
    /\ ~runOnce /\ nCalls = 2 /\ pstate = "scheduled"
    /\ calls[1].pc = "done" /\ calls[1].result = "ok"
    /\ calls[2].overlap /\ calls[2].result = "skipped" /\ calls[2].trace = <<>>
    /\ ~isRunning

--------------------------------------------------------------------------
(* Properties of the interview store, under SpecStore *)

\* the entries of a document that make a record: a url, a text, and a
\* cleaned body longer than 100 characters
ValidEntries(entries) ==
    SelectSeq(entries, LAMBDA e : e.hasUrl /\ e.hasText /\ e.len > 100)

\* a completed loadInterviews() or reload() whose readFile gave an array
LoadedArray(o) ==
    o.op \in {"load", "reload"} /\ o.pc = "done" /\ o.read.kind = "array"

\* C12: a load of a document that is a JSON array returns the collection of
\* exactly the entries that have a url and a text and a cleaned body longer
\* than 100 characters, in document order (so its size is the number of
\* entries minus the excluded ones), and every record the store holds or
\* returns has a cleaned body longer than 100 characters.
C12_LoadKeepsExactlyValidEntries ==
    /\ \A j \in DOMAIN sr.ops :
          LoadedArray(sr.ops[j]) =>
              /\ sr.ops[j].result = "returned"
              /\ Len(sr.ops[j].served.list) = Len(ValidEntries(sr.ops[j].read.entries))
              /\ \A k \in 1..Len(sr.ops[j].served.list) :
                    sr.ops[j].served.list[k].len = ValidEntries(sr.ops[j].read.entries)[k].len
    /\ \A k \in 1..Len(interviews.list) : interviews.list[k].len > 100
    /\ \A j \in DOMAIN sr.ops :
          (sr.ops[j].op = "getRandom" /\ sr.ops[j].result = "returned") =>
              sr.ops[j].rec.len > 100

\* the cache was absent, or older than 5 minutes, when o was called
StaleAtCall(o) == o.cache.isNull \/ o.at - o.llt > 300000

\* C13: a read (getRandomInterview, getAllInterviews, getInterviewById)
\* called when no collection is loaded, or more than 300000 ms after the
\* last load, performs one load and answers from the collection that load
\* built; a read called within the window performs no load and answers at
\* once from the cached collection.
C13_StaleReadReloadsFreshReadServesCache ==
    \A j \in DOMAIN sr.ops :
        LET o == sr.ops[j]
        IN  (o.op \in ReadOps /\ o.pc # "idle") =>
                IF StaleAtCall(o)
                THEN /\ o.loads = 1
                     /\ (o.pc = "done" /\ o.err \notin LoadErrors) =>
                           o.served = [isNull |-> FALSE,
                                       list |-> ProcessedInterviews(o.read.entries)]
                ELSE /\ o.loads = 0
                     /\ o.pc = "done"
                     /\ o.served = o.cache

\* a load filled the cache, and a read called more than 5 minutes later
\* reloaded and returned from a collection that differs from the cached one
C13_Witness ==
    \E i, j \in DOMAIN sr.ops :
        /\ sr.ops[i].op = "load" /\ sr.ops[i].result = "returned"
        /\ sr.ops[j].op \in ReadOps /\ sr.ops[j].result = "returned"
        /\ ~sr.ops[j].cache.isNull
        /\ sr.ops[j].at - sr.ops[j].llt > 300000
        /\ sr.ops[j].loads = 1
        /\ sr.ops[j].served # sr.ops[j].cache

\* C14: whenever another operation of the store can run, the collection
\* and the last-load time are either both absent or both those of the load
\* that completed last: no state holds a collection with the time of
\* another load, or a time without a collection.
C14_CollectionAndTimeConsistent ==
    sr.on =>
        \/ interviews.isNull /\ lastLoadTime = NullTime
        \/ /\ ~interviews.isNull
           /\ sr.last.any
           /\ interviews.list = sr.last.list
           /\ lastLoadTime = sr.last.t

\* a second load replaced a loaded collection by a different one, at a
\* later time, while the store had answered a read from the first
C14_Witness ==
    /\ sr.last.any /\ sr.last.t > 0
    /\ ~interviews.isNull /\ interviews.list = sr.last.list
    /\ \E j \in DOMAIN sr.ops :
          /\ sr.ops[j].pc = "done" /\ sr.ops[j].result = "returned"
          /\ ~sr.ops[j].served.isNull
          /\ sr.ops[j].served.list # interviews.list

\* the positions of the records of list that carry id
Carriers(list, id) == {k \in 1..Len(list) : list[k].id = id}

\* C15: getInterviewById(id) returns the record of the collection whose id
\* is id, of which there is exactly one, and fails with the not-found error
\* when no record of the collection carries id; the ids of a collection are
\* pairwise distinct.
C15_GetByIdFindsTheOneRecord ==
    /\ \A j \in DOMAIN sr.ops :
          LET o == sr.ops[j]
          IN  (o.op = "getById" /\ o.pc = "done" /\ o.err \notin LoadErrors) =>
                  IF Carriers(o.served.list, o.id) = {}
                  THEN o.result = "threw" /\ o.err = "NotFound"
                  ELSE /\ Cardinality(Carriers(o.served.list, o.id)) = 1
                       /\ o.result = "returned"
                       /\ o.rec.id = o.id
                       /\ \A k \in Carriers(o.served.list, o.id) : o.rec = o.served.list[k]
    /\ \A k1, k2 \in 1..Len(interviews.list) :
          interviews.list[k1].id = interviews.list[k2].id => k1 = k2

\* from a collection of two records, one getInterviewById returned the
\* second record and one failed with the not-found error
C15_Witness ==
    /\ Len(interviews.list) = 2
    /\ \E i, j \in DOMAIN sr.ops :
          /\ sr.ops[i].op = "getById" /\ sr.ops[i].result = "returned"
          /\ sr.ops[i].served = interviews /\ sr.ops[i].rec = interviews.list[2]
          /\ sr.ops[j].op = "getById" /\ sr.ops[j].err = "NotFound"
          /\ sr.ops[j].served = interviews

--------------------------------------------------------------------------
(* Properties of the dispatcher, under SpecMail *)

\* C8: on a dispatcher whose host, user and password are configured, a send
\* to an empty recipient list fails with the no-recipients error before any
\* call on the SMTP library: no transport is created, no liveness check is
\* made and no message is submitted.
C8_EmptyRecipientsFailBeforeNetwork ==
    \A j \in MailOpIds :
        (isConfigured /\ mailOps[j].op = "send" /\ mailOps[j].rcpts = <<>>) =>
            /\ mailOps[j].pc = "done"
            /\ mailOps[j].result = "threw"
            /\ mailOps[j].err = "NoRecipients"
            /\ mailOps[j].trace = <<>>

\* a step in which operation j hands a message to transporter.sendMail()
Submits(j) ==
    /\ ~Touches(mailOps[j].trace, {"sendMail"})
    /\ Touches(mailOps'[j].trace, {"sendMail"})

\* C19: a message is submitted to the transport only after a liveness check
\* has succeeded on the dispatcher: a send called when no liveness check is
\* pending (so also a send that follows a failed init()) submits only if a
\* verify() of the dispatcher has succeeded; and a dispatcher establishes at
\* most one transport.
C19_SubmitOnlyAfterVerify ==
    /\ [][\A j \in MailOpIds :
            (Submits(j) /\ \A i \in MailOpIds : mailOps[i].pc \notin {"verify", "reverify"})
                => \E i \in MailOpIds : mailOps[i].verified]_vars
    /\ [](Cardinality({j \in MailOpIds :
                          Touches(mailOps[j].trace, {"createTransport"})}) <= 1)

\* C20: a dispatcher constructed with host, user or password missing is
\* marked unconfigured; on it every send fails with the email-configuration
\* error and every testConnection() returns false, with no transport
\* created and no call on the SMTP library.
C20_UnconfiguredFailsWithoutNetwork ==
    (~mailConfig.host \/ ~mailConfig.user \/ ~mailConfig.password) =>
        /\ ~isConfigured
        /\ transporter = "null"
        /\ \A j \in MailOpIds :
              /\ mailOps[j].trace = <<>>
              /\ mailOps[j].op = "send" =>
                    /\ mailOps[j].pc = "done" /\ mailOps[j].result = "threw"
                    /\ mailOps[j].err = "EmailConfig"
              /\ mailOps[j].op = "test" =>
                    /\ mailOps[j].pc = "done" /\ mailOps[j].result = "false"

\* on a dispatcher constructed without a password, a send failed with the
\* email-configuration error and a testConnection() returned false
C20_Witness ==
    /\ mailConfig.host /\ mailConfig.user /\ ~mailConfig.password
    /\ \E i, j \in MailOpIds :
          /\ mailOps[i].op = "send" /\ mailOps[i].err = "EmailConfig"
          /\ mailOps[j].op = "test" /\ mailOps[j].result = "false"

--------------------------------------------------------------------------
(* Properties of the quote provider, under SpecExtract *)

\* C9: for every provider kind, a reply whose cleaned text is empty or is
\* the sentinel makes extractQuotes() return the absent result: it throws
\* nothing and returns no quote whose text is the sentinel.
C9_SentinelOrEmptyIsAbsent ==
    (/\ xq.outcome.tag # "unset"
     /\ xq.reply \notin {Failure, Undefined}
     /\ cleanQuote(xq.reply) \in {NullStr, <<>>, Sentinel})
        => /\ xq.outcome.tag = "absent"
           /\ xq.outcome.text # Sentinel

\* C10: cleaning is idempotent: when cleanQuote(r) is a string that holds a
\* quote (it is not empty), cleaning it again gives the same string.
C10_CleanQuoteIdempotent ==
    (xq.cleanedTwice # Unset /\ xq.cleaned # <<>>) => xq.cleanedTwice = xq.cleaned

\* a whitespace run of s that is not exactly one space
LongWhitespace(s) ==
    \/ \E k \in 1..Len(s) : s[k] \in SpaceChars /\ s[k] # " "
    \/ \E k \in 1..(Len(s) - 1) : s[k] \in SpaceChars /\ s[k + 1] \in SpaceChars

\* C11: every QuoteResult extractQuotes() of the five-provider
\* implementation returns has a text that is not empty, neither begins nor
\* ends with a quotation mark, does not begin with a dash and holds no
\* whitespace run other than one space, and its source is the configured
\* provider.
C11_QuoteResultTextIsClean ==
    (xq.impl = "current" /\ xq.outcome.tag = "quotes") =>
        /\ xq.outcome.text # <<>>
        /\ Head(xq.outcome.text) \notin QuoteChars
        /\ xq.outcome.text[Len(xq.outcome.text)] \notin QuoteChars
        /\ Head(xq.outcome.text) # "-"
        /\ ~LongWhitespace(xq.outcome.text)
        /\ xq.outcome.source = xq.kind

--------------------------------------------------------------------------
(* Properties of the configuration and of provider construction, under    *)
(* SpecConfig                                                              *)

\* C16: constructing the quote provider fails when no provider kind is
\* given, when the kind is not a supported one, or when openai, anthropic
\* or gemini is selected without an API key; it succeeds without an API key
\* for ollama and transformers.
C16_ConstructionRequiresKindAndCredential ==
    (cf.task = "construct" /\ cf.built # "unset") =>
        /\ (cf.kind = "none" \/ cf.kind \notin ProviderKinds
               \/ (cf.kind \in HostedKinds /\ ~cf.hasKey)) => cf.built # "none"
        /\ (cf.kind \in {"ollama", "transformers"} /\ ~cf.hasKey) => cf.built = "none"

\* the override variable of the OS family, if the family has one and the
\* variable names a provider
OverrideOfFamily(env) ==
    LET byFamily == [win32 |-> env.AI_PROVIDER_WINDOWS, darwin |-> env.AI_PROVIDER_MACOS,
                     linux |-> env.AI_PROVIDER_LINUX]
    IN  IF env.platform \in DOMAIN byFamily /\ byFamily[env.platform] \in ProviderKinds
        THEN byFamily[env.platform]
        ELSE "none"

EffectiveProvider(env) ==
    IF OverrideOfFamily(env) # "none" THEN OverrideOfFamily(env)
    ELSE IF env.AI_PROVIDER = "unset" THEN "openai" ELSE env.AI_PROVIDER

\* C17: in an environment the schema accepts, the provider the bot uses is
\* the override of the current OS family when that is set and not blank and
\* AI_PROVIDER otherwise (also on a family without an override variable),
\* and the startup check for a missing API key fails exactly when this
\* effective provider is a hosted one whose key is not set.
C17_EffectiveProviderIsValidated ==
    (cf.task = "startup" /\ cf.stage # "fresh" /\ JoiViolations(cf.env) = <<>>) =>
        /\ (cf.reported = {"API_KEY"}) =
              (/\ EffectiveProvider(cf.env) \in HostedKinds
               /\ ApiKeyOf(cf.env, EffectiveProvider(cf.env)) = "unset")
        /\ cf.kind # "none" => cf.kind = EffectiveProvider(cf.env)

\* on linux, with AI_PROVIDER openai and no OpenAI key, the override ollama
\* was validated and the bot constructed an ollama provider
C17_Witness ==
    /\ cf.task = "startup" /\ cf.stage = "ready"
    /\ cf.env.platform = "linux" /\ cf.env.AI_PROVIDER_LINUX = "ollama"
    /\ cf.env.AI_PROVIDER = "openai" /\ cf.env.OPENAI_API_KEY = "unset"
    /\ cf.kind = "ollama"

\* every missing or invalid setting of an environment: the variables the
\* schema rejects, the API key the effective provider lacks, a malformed
\* API key, and an empty or malformed recipient list
Violations(env) ==
    {JoiViolations(env)[k] : k \in 1..Len(JoiViolations(env))}
    \cup (IF env.AI_PROVIDER # "bogus"
          THEN validatePlatformSpecificRequirements(env)
                  \cup (validateConnections(EffectiveProvider(env),
                            ApiKeyOf(env, EffectiveProvider(env)), <<"r@x.io">>))
          ELSE {})
    \cup (IF env.EMAIL_RECIPIENTS # UnsetRecipients
          THEN validateConnections("ollama", "unset", getEmailRecipients(env.EMAIL_RECIPIENTS))
          ELSE {})

\* C18: when startup fails on the configuration (before any service is
\* constructed), the error it reports names every missing or invalid
\* setting of the environment, not only the first one found.
C18_StartupReportsEveryViolation ==
    (cf.task = "startup" /\ cf.stage = "failed" /\ cf.built = "unset") =>
        Violations(cf.env) \subseteq cf.reported

\* C22: for every provider kind and every admitted setting, the backend
\* call carries the configured model, token limit and temperature, a
\* configured temperature of 0 included.
C22_RequestCarriesConfiguredSettings ==
    (cf.task = "request" /\ cf.request # NoAiSettings) => cf.request = cf.ai

--------------------------------------------------------------------------
(* Properties of the derived record fields.                                *)

\* the non-empty lines of the raw text among which a title is looked for
FirstFive(text) == Slice(SelectSeq(text, NonEmptyLine), 5)
TitleLike(l) ==
    /\ l.len >= 10 /\ l.len <= 100
    /\ "home" \notin l.lower /\ "about" \notin l.lower
    /\ ".com" \notin l.exact
TitleCandidates(text) == {i \in 1..Len(FirstFive(text)) : TitleLike(FirstFive(text)[i])}
LastSegment(url) ==
    LET segs == SelectSeq(url.path, NonEmptySegment) IN segs[Len(segs)]

\* C23: the title is the first title-like line among the first five
\* non-empty lines; without one it is the last path segment of the url,
\* hyphens as spaces and words capitalized, and 'Interview' for a url that
\* does not parse.
C23_TitleIsFirstTitleLikeLineElseFromUrl ==
    (rd.task = "title" /\ rd.done) =>
        IF TitleCandidates(rd.text) # {}
        THEN LET first == CHOOSE i \in TitleCandidates(rd.text) :
                              \A k \in TitleCandidates(rd.text) : i <= k
             IN  rd.title = TitleOfLine(FirstFive(rd.text)[first])
        ELSE IF ~rd.url.parsable
             THEN rd.title = TitleOfWords(<<"Interview">>)
             ELSE SelectSeq(rd.url.path, NonEmptySegment) # <<>> =>
                     rd.title = TitleOfWords([i \in 1..Len(LastSegment(rd.url)) |->
                                                 ToUpperFirst(LastSegment(rd.url)[i])])

\* a sixth non-empty line is title-like and none of the first five is; the
\* url has a last segment of two words
C23_Witness ==
    /\ rd.task = "title" /\ rd.done
    /\ TitleCandidates(rd.text) = {}
    /\ Len(SelectSeq(rd.text, NonEmptyLine)) = 6
    /\ TitleLike(rd.text[6])
    /\ rd.title = TitleOfWords(<<"Rick", "Owens">>)

\* s has a blank line between two pieces of text
HasParagraphBreak(s) ==
    \E i, j \in 1..Len(s) :
        /\ i < j /\ s[i] = "\n" /\ s[j] = "\n"
        /\ \A k \in (i + 1)..(j - 1) : s[k] \in Whitespace \ {"\n"}
        /\ \E k \in 1..(i - 1) : s[k] \notin Whitespace
        /\ \E k \in (j + 1)..Len(s) : s[k] \notin Whitespace

\* C24: a paragraph break of the raw content is a paragraph break of the
\* cleaned content.
C24_ParagraphBreakIsKept ==
    (rd.task = "content" /\ rd.done /\ HasParagraphBreak(rd.content)) =>
        HasParagraphBreak(rd.cleaned)

HasPrefix(s, prefix) == Len(s) >= Len(prefix) /\ SubSeq(s, 1, Len(prefix)) = prefix

\* C25: the source host of a url that parses is its hostname without a
\* leading "www.", a "www." elsewhere in it kept; of a url that does not
\* parse it is the placeholder.
C25_SourceDropsOnlyLeadingWww ==
    (rd.task = "source" /\ rd.done) =>
        rd.source = IF ~rd.url.parsable THEN UnknownSource
                    ELSE IF HasPrefix(rd.url.host, <<"w", "w", "w", ".">>)
                         THEN SubSeq(rd.url.host, 5, Len(rd.url.host))
                         ELSE rd.url.host

\* C26: in every reachable state of the store the mean content length
\* that stats() returns is a number, also after a load that kept no record.
C26_MeanLengthIsANumber ==
    sr.on => ~getStats(interviews, lastLoadTime).averageLength.isNaN

--------------------------------------------------------------------------
(* Properties of the local-inference backend.                              *)

\* C27: over any extract calls on one provider, overlapping ones included,
\* the inference pipeline is constructed at most once.
C27_PipelineConstructedAtMostOnce ==
    lx.on => lx.constructions <= 1

--------------------------------------------------------------------------
(* Failed loads of the interview store.                                    *)

\* operation j completes in this step with an error of its load
LoadFails(j) ==
    /\ j \in DOMAIN sr.ops /\ sr.ops[j].pc = "readFile"
    /\ sr'.ops[j].pc = "done" /\ sr'.ops[j].err \in LoadErrors

\* no load succeeded since operation j was called
NoLoadSince(j) == SuccessfulLoads(sr.ops) = sr.ops[j].seen

\* C28: a load that fails leaves the collection and the last-load time as
\* they were, so that, no other load having succeeded since the read that
\* triggered it, a read still loads; reload() discarded both before
\* loading, so that after a failed reload() the store holds no collection.
C28_FailedLoadLeavesCacheAsItWas ==
    [][\A j \in 1..MaxStoreOps :
          LoadFails(j) =>
              /\ interviews' = interviews
              /\ lastLoadTime' = lastLoadTime
              /\ (sr.ops[j].op \in ReadOps /\ NoLoadSince(j)) =>
                    NeedsLoad(interviews', lastLoadTime', now')
              /\ (sr.ops[j].op = "reload" /\ NoLoadSince(j)) =>
                    (interviews' = NoInterviews /\ lastLoadTime' = NullTime)]_vars

\* a read on a stale, loaded cache failed to load, and the collection and
\* time it found are still those of the store
C28_Witness ==
    \E j \in DOMAIN sr.ops :
        /\ sr.ops[j].op \in ReadOps /\ sr.ops[j].pc = "done"
        /\ sr.ops[j].err \in LoadErrors
        /\ ~sr.ops[j].cache.isNull
        /\ sr.ops[j].at - sr.ops[j].llt > StaleAfter
        /\ interviews = sr.ops[j].cache /\ lastLoadTime = sr.ops[j].llt

--------------------------------------------------------------------------
(* The single-quote operation of the quote provider.                       *)

\* C29: extractQuote() returns the cleaned quote text when extractQuotes()
\* yields a quote, and returns null, without throwing, when it yields the
\* absent result.
C29_ExtractQuoteReturnsTextOrNull ==
    (xq.impl = "current" /\ xq.single.tag # "unset") =>
        LET quotes == extractQuotes(xq.kind, xq.reply)
        IN  /\ quotes.tag = "quotes" => xq.single = Returned(quotes.text)
            /\ quotes.tag = "absent" => xq.single = Returned(NullStr)

--------------------------------------------------------------------------
(* Startup: from a validated configuration to the quote provider.          *)

\* C30: when the configuration was validated and the connection checks
\* passed, constructing the quote provider from getAIConfig() does not
\* throw, and the provider constructed is the effective provider that was
\* validated.
C30_ValidatedConfigurationConstructs ==
    (cf.task = "startup" /\ cf.built # "unset") =>
        /\ cf.built = "none"
        /\ cf.kind = EffectiveProvider(cf.env)

==========================================================================
